---- MODULE Spec2Model ----
(***************************************************************************)
(* The stealer event loop of mirrord's agent                                *)
(* (src/mirrord/agent/src/steal/connection.rs, TcpConnectionStealer).       *)
(*                                                                          *)
(* `core` holds the fields of the struct; one action stands for one branch  *)
(* of the select! in start() (with the handler it calls, in full) or for    *)
(* one step of the environment (a peer connecting, a filter task emitting a *)
(* request or exiting, a client dropping the receiving end of its channel). *)
(* start() takes `self` by value: when the loop returns, or panics, every   *)
(* table is dropped, so a stopped loop keeps only `status`, `cause` and `out`. *)
(*                                                                          *)
(* The last part models FsUserConfig of mirrord's configuration             *)
(* (src/mirrord/config/src/fs.rs): default() and generate_config().         *)
(***************************************************************************)
EXTENDS Naturals, Integers, Sequences, FiniteSets, TLC

\* ---------------------------------------------------------------- bounds
\* Number of client ids the outer agent hands out.
NumClients == 2
\* Number of ports of the target workload that clients subscribe to.
NumPorts == 1
\* Capacity of the index allocator: IndexAllocator<ConnectionId, 100> in the
\* source, scaled down so that exhaustion is reachable.
IndexCap == 2
\* Number of filtered connections (filter tasks) accepted over a run.
MaxTasks == 1
\* Number of requests one filter task emits.
MaxRequests == 2
\* Capacity of a client's outbound channel (the Sender<DaemonTcp> that comes
\* with NewClient), scaled down so that a full channel is reachable.
ChannelCap == 1

ClientIds == 1..NumClients
Ports == 1..NumPorts
ConnectionIds == 0..(IndexCap - 1)
RequestIds == 0..(MaxRequests - 1)
TaskIds == 1..MaxTasks

VARIABLES
    core,      \* the fields of TcpConnectionStealer
    status,    \* "running", or how start() ended: "ok", "err", "panic"
    cause,     \* what ended the loop ("" while it runs)
    tasks,     \* the spawned filter tasks
    redirected, \* ports the kernel has redirected to the listener at some time
    closes,    \* history: Close messages sent for the raw connection now holding an id
    out,       \* the messages the last step sent to clients
    last,      \* history: the step taken last, the client id its command came
               \* under (0 when not recorded), the connection ids it freed, and
               \* whether it left the struct alone and sent nothing
    announced, \* history: <<id, client>> once NewConnection for the raw connection
               \* now holding id has been sent to the client
    config,    \* mirrord-config's fs section: the environment, the user's
               \* FsUserConfig and what generate_config made of it
    signal,    \* "none", or how the outer agent asked the loop to end:
               \* "cancelled" (the token) or "closed" (the command sender dropped)
    awaiting,  \* the event whose handler awaits room on a client's channel
    inbox      \* per client id: the messages on its channel not yet received

\* The state of the stealer.
stealer == <<core, status, cause, tasks, redirected, closes, out, last, announced,
             signal, awaiting, inbox>>

vars == <<core, status, cause, tasks, redirected, closes, out, last, announced, config,
          signal, awaiting, inbox>>

\* ------------------------------------------------------- maps (HashMap)
Insert(f, k, v) == [x \in (DOMAIN f) \cup {k} |-> IF x = k THEN v ELSE f[x]]
Remove(f, k) == [x \in (DOMAIN f) \ {k} |-> f[x]]
EmptyMap == [x \in {} |-> x]

\* ----------------------------------------------------- index allocator
\* next_index: the smallest unused id, or -1 when every id is in use.
next_index(allocated) ==
    IF allocated = ConnectionIds THEN -1
    ELSE CHOOSE i \in ConnectionIds \ allocated :
            \A j \in ConnectionIds \ allocated : i <= j

\* free_index: returns the id to the pool; a no-op on a free id.
free_index(allocated, id) == allocated \ {id}

\* ----------------------------------------------------- port subscriptions
NoSubscription == [kind |-> "None", client |-> 0, filters |-> <<>>]
Unfiltered(c) == [kind |-> "Unfiltered", client |-> c, filters |-> <<>>]
Filtered(fs) == [kind |-> "Filtered", client |-> 0, filters |-> fs]

SeqRange(s) == {s[i] : i \in 1..Len(s)}
SeqWithout(s, c) == SelectSeq(s, LAMBDA x : x # c)

\* PortSubscriptions::add: the new map and the result reported to the client.
\* `redirect_ok` is whether the redirector could install the redirection.
subscriptions_add(subs, c, port, filtered, redirect_ok) ==
    LET cur == subs[port] IN
    CASE cur.kind = "None" ->
            IF ~redirect_ok THEN [subs |-> subs, res |-> "Err"]
            ELSE [subs |-> [subs EXCEPT ![port] =
                              IF filtered THEN Filtered(<<c>>) ELSE Unfiltered(c)],
                  res |-> "Ok"]
      [] cur.kind = "Unfiltered" -> [subs |-> subs, res |-> "Err"]
      [] cur.kind = "Filtered" ->
            IF filtered /\ c \notin SeqRange(cur.filters)
            THEN [subs |-> [subs EXCEPT ![port] = Filtered(Append(cur.filters, c))],
                  res |-> "Ok"]
            ELSE [subs |-> subs, res |-> "Err"]

\* One port's subscription once client c has given up its stake.
WithoutClient(sub, c) ==
    CASE sub.kind = "Unfiltered" -> IF sub.client = c THEN NoSubscription ELSE sub
      [] sub.kind = "Filtered" ->
            IF SeqWithout(sub.filters, c) = <<>> THEN NoSubscription
            ELSE Filtered(SeqWithout(sub.filters, c))
      [] OTHER -> sub

\* PortSubscriptions::remove
subscriptions_remove(subs, c, port) == [subs EXCEPT ![port] = WithoutClient(subs[port], c)]

\* PortSubscriptions::remove_all
subscriptions_remove_all(subs, c) == [p \in Ports |-> WithoutClient(subs[p], c)]

\* ------------------------------------------------------------ the struct
InitCore ==
    [port_subscriptions |-> [p \in Ports |-> NoSubscription],
     clients |-> EmptyMap,
     index_allocator |-> {},
     write_streams |-> {},
     read_streams |-> EmptyMap,
     connection_clients |-> EmptyMap,
     client_connections |-> EmptyMap,
     http_request_receiver |-> <<>>,
     http_connection_close_receiver |-> <<>>,
     http_connection_clients |-> EmptyMap,
     http_response_senders |-> EmptyMap]

\* A filter task: "unborn" (not spawned), "live", "exited" (its id is on the
\* close channel) or "closed" (the loop has handled its close). reqd and closd
\* are history: the clients that were sent a request of the task, and the
\* clients that were sent the Close of its connection.
UnbornTask ==
    [phase |-> "unborn", connection_id |-> -1, filters |-> <<>>,
     next_request_id |-> 0, waiting |-> FALSE, reqd |-> {}, closd |-> {}]

InitTasks == [t \in TaskIds |-> UnbornTask]
InitCloses == [i \in ConnectionIds |-> 0]

\* An event the select! of start() yields to a handler; NoEvent for none.
Event(name, c, port, id, outcome) ==
    [name |-> name, client |-> c, port |-> port, id |-> id, outcome |-> outcome]

NoEvent == Event("", 0, 0, -1, "")

\* A message on a client's channel. `task` is history: the filter task the
\* message stems from (0 for a raw connection).
Msg(c, type, id, rid, task, info) ==
    [to |-> c, type |-> type, connection_id |-> id, request_id |-> rid,
     task |-> task, info |-> info]

\* Sender::send succeeds while the receiving end is alive.
CanSend(s, c) == c \in DOMAIN s.clients /\ s.clients[c].open


\* ---------------------------------------------------- handlers (pure part)
\* The client remove_connection returns (0 for None).
connection_owner(s, id) ==
    IF id \in DOMAIN s.connection_clients THEN s.connection_clients[id] ELSE 0

remove_connection(s, id) ==
    [s EXCEPT !.write_streams = @ \ {id},
              !.read_streams = Remove(@, id),
              !.index_allocator = free_index(@, id),
              !.connection_clients = Remove(@, id)]

connection_unsubscribe(s, id) ==
    LET client_id == connection_owner(s, id)
        s1 == remove_connection(s, id)
    IN  IF client_id = 0 \/ client_id \notin DOMAIN s1.client_connections THEN s1
        ELSE LET connections == s1.client_connections[client_id] \ {id} IN
             IF connections = {}
             THEN [s1 EXCEPT !.client_connections = Remove(@, client_id)]
             ELSE [s1 EXCEPT !.client_connections = Insert(@, client_id, connections)]

RECURSIVE remove_connections(_, _)
remove_connections(s, ids) ==
    IF ids = {} THEN s
    ELSE LET id == CHOOSE i \in ids : TRUE
         IN  remove_connections(remove_connection(s, id), ids \ {id})

\* close_client without the loop over the client's remaining connections.
close_client_keeps_connections(s, client_id) ==
    LET s1 == [s EXCEPT !.port_subscriptions = subscriptions_remove_all(@, client_id)]
    IN  [s1 EXCEPT !.client_connections = Remove(@, client_id),
                   !.clients = Remove(@, client_id)]

close_client(s, client_id) ==
    LET s1 == [s EXCEPT !.port_subscriptions = subscriptions_remove_all(@, client_id)]
        s2 == IF client_id \in DOMAIN s1.client_connections
              THEN remove_connections(
                       [s1 EXCEPT !.client_connections = Remove(@, client_id)],
                       s1.client_connections[client_id])
              ELSE s1
    IN  [s2 EXCEPT !.clients = Remove(@, client_id)]

\* What the aggregated read-stream map holds for `id` after it yielded
\* `outcome`: a ReaderStream that failed yields end-of-stream next, and the
\* map drops a stream when it yields end-of-stream.
read_streams_after(rs, id, outcome) ==
    CASE outcome = "data" -> rs
      [] outcome = "err" -> Insert(rs, id, "failed")
      [] outcome = "eof" -> Remove(rs, id)

\* The history of Close messages follows the raw connections of s.
closes_of(s, base) ==
    [i \in ConnectionIds |-> IF i \in DOMAIN s.connection_clients THEN base[i] ELSE 0]

\* ------------------------------------------------------------ transitions
Running == status = "running"

\* A port stays redirected from the time a subscription installs its rule;
\* connections queued by the listener outlive the subscription.
redirected_after(s) ==
    redirected \cup {p \in Ports : s.port_subscriptions[p].kind # "None"}

\* The loop goes on with the struct s, having sent the messages o; cl is the
\* history of Close messages.
Proceed(s, cl, o) ==
    /\ status' = "running"
    /\ cause' = ""
    /\ core' = s
    /\ closes' = cl
    /\ redirected' = redirected_after(s)
    /\ out' = o

Continue(s, o) == Proceed(s, closes_of(s, closes), o)

\* start() returns or panics: `self` and everything it owns is dropped.
Stop(how, why, o) ==
    /\ status' = how
    /\ cause' = why
    /\ core' = InitCore
    /\ tasks' = InitTasks
    /\ redirected' = {}
    /\ closes' = InitCloses
    /\ out' = o


\* ----------------------------------------------- commands (handle_command)
\* Command::NewClient. The outer agent gives an id to one client at a time.
NewClient(c, framed) ==
    /\ Running
    /\ c \notin DOMAIN core.clients
    /\ Continue([core EXCEPT !.clients = Insert(@, c, [open |-> TRUE, framed |-> framed])], {})
    /\ UNCHANGED tasks

\* Command::ConnectionUnsubscribe, sent under client id c.
ConnectionUnsubscribe(c, id) ==
    /\ Running
    /\ Continue(connection_unsubscribe(core, id), {})
    /\ UNCHANGED tasks

\* port_subscribe that inserts the subscription over whatever the port holds.
PortSubscribe_overwrites(c, port, steal, compile_ok, redirect_ok) ==
    /\ Running
    /\ compile_ok /\ redirect_ok
    /\ LET s1 == [core EXCEPT !.port_subscriptions[port] =
                     IF steal = "All" THEN Unfiltered(c) ELSE Filtered(<<c>>)]
       IN  IF CanSend(s1, c)
           THEN /\ Continue(s1, {Msg(c, "SubscribeResult", -1, -1, 0, "Ok")})
                /\ UNCHANGED tasks
           ELSE Continue(s1, {}) /\ UNCHANGED tasks

\* port_subscribe that calls add even though the filter did not compile.
PortSubscribe_adds_uncompiled(c, port, steal, compile_ok, redirect_ok) ==
    /\ Running
    /\ steal = "All" => compile_ok
    /\ (~compile_ok \/ core.port_subscriptions[port].kind # "None") => redirect_ok
    /\ LET added == subscriptions_add(core.port_subscriptions, c, port,
                                      steal # "All", redirect_ok)
           s1 == [core EXCEPT !.port_subscriptions = added.subs]
       IN  IF CanSend(s1, c)
           THEN /\ Continue(s1, {Msg(c, "SubscribeResult", -1, -1, 0, added.res)})
                /\ UNCHANGED tasks
           ELSE Continue(s1, {}) /\ UNCHANGED tasks

\* Command::PortSubscribe: port_subscribe, then send_message_to_single_client.
\* steal is the StealType; compile_ok is whether its filter compiles and
\* redirect_ok whether the redirector installs the rule of a port without
\* one (an input that the handler does not consult is held at TRUE).
PortSubscribe(c, port, steal, compile_ok, redirect_ok) ==
    /\ Running
    /\ steal = "All" => compile_ok
    /\ (~compile_ok \/ core.port_subscriptions[port].kind # "None") => redirect_ok
    /\ LET added == subscriptions_add(core.port_subscriptions, c, port,
                                      steal # "All", redirect_ok)
           compiled == steal = "All" \/ compile_ok
           res == CASE ~compiled /\ steal = "FilteredHttp" -> "Err(BadHttpFilterRegex)"
                    [] ~compiled /\ steal = "FilteredHttpEx" -> "Err(BadHttpFilterExRegex)"
                    [] OTHER -> added.res
           s1 == IF compiled THEN [core EXCEPT !.port_subscriptions = added.subs] ELSE core
       IN  IF c \notin DOMAIN s1.clients
           THEN Continue(s1, {}) /\ UNCHANGED tasks
           ELSE IF CanSend(s1, c)
           THEN /\ Continue(s1, {Msg(c, "SubscribeResult", -1, -1, 0, res)})
                /\ UNCHANGED tasks
           ELSE Stop("err", "SubscribeResult: send failed", {})

\* Command::PortUnsubscribe
PortUnsubscribe(c, port) ==
    /\ Running
    /\ Continue([core EXCEPT !.port_subscriptions = subscriptions_remove(@, c, port)], {})
    /\ UNCHANGED tasks

\* Command::ClientClose
ClientClose(c) ==
    /\ Running
    /\ Continue(close_client(core, c), {})
    /\ UNCHANGED tasks

\* Command::ResponseData: forward_data. write_ok is whether write_all succeeds.
ResponseData(c, id, write_ok) ==
    /\ Running
    /\ id \notin core.write_streams => write_ok
    /\ IF id \in core.write_streams /\ ~write_ok
       THEN Stop("err", "forward_data: write_all failed", {})
       ELSE Continue(core, {}) /\ UNCHANGED tasks

\* http_response that looks the sink up without removing it from the map.
HttpResponse_keeps_sink(c, id, rid, hyper_ok) ==
    /\ Running
    /\ hyper_ok
    /\ LET key == <<id, rid>>
       IN  /\ Continue(core, {})
           /\ tasks' = IF /\ key \in DOMAIN core.http_response_senders
                          /\ core.http_response_senders[key] # 0
                          /\ tasks[core.http_response_senders[key]].waiting
                       THEN [tasks EXCEPT ![core.http_response_senders[key]].waiting = FALSE]
                       ELSE tasks

\* Command::HttpResponse: http_response. hyper_ok is whether into_hyper
\* rebuilds the response; when it does not, the debug build asserts.
HttpResponse(c, id, rid, hyper_ok) ==
    /\ Running
    /\ <<id, rid>> \notin DOMAIN core.http_response_senders => hyper_ok
    /\ LET key == <<id, rid>>
       IN  IF key \notin DOMAIN core.http_response_senders
           THEN Continue(core, {}) /\ UNCHANGED tasks
           ELSE LET t == core.http_response_senders[key]
                    s1 == [core EXCEPT !.http_response_senders = Remove(@, key)]
                    \* the task still holds the receiving end of the sink
                    answered == t # 0 /\ tasks[t].waiting
                IN  IF hyper_ok
                    THEN /\ Continue(s1, {})
                         /\ tasks' = IF answered
                                     THEN [tasks EXCEPT ![t].waiting = FALSE]
                                     ELSE tasks
                    ELSE \/ Stop("panic", "http_response: debug_assert", {})
                         \/ Continue(s1, {}) /\ UNCHANGED tasks

\* Command::SwitchProtocolVersion
SwitchProtocolVersion(c, framed) ==
    /\ Running
    /\ Continue(IF c \in DOMAIN core.clients
                THEN [core EXCEPT !.clients[c].framed = framed]
                ELSE core, {})
    /\ UNCHANGED tasks

\* command_rx yields None: the outer agent dropped the sender.
CommandChannelClosed ==
    /\ Running
    /\ Stop("ok", "command channel closed", {})

\* The cancellation token fires.
Cancelled ==
    /\ Running
    /\ Stop("ok", "cancelled", {})


\* ------------------------------------------------------------- accepting
\* next_connection() fails: the loop logs and breaks, and start() returns Ok.
AcceptFailed ==
    /\ Running
    /\ Stop("ok", "next_connection failed", {})

\* steal_connection, once orig_dst succeeded, for the holder c of the port.
\* local_ok is whether stream.local_addr() succeeds.
StealConnection(c, port, local_ok) ==
    LET id == next_index(core.index_allocator)
        s1 == [core EXCEPT
                 !.index_allocator = @ \cup {id},
                 !.write_streams = @ \cup {id},
                 !.read_streams = Insert(@, id, "open"),
                 !.connection_clients = Insert(@, id, c),
                 !.client_connections =
                     Insert(@, c, (IF c \in DOMAIN @ THEN @[c] ELSE {}) \cup {id})]
    IN  IF id = -1 THEN Stop("panic", "steal_connection: next_index().unwrap()", {})
        ELSE IF ~local_ok THEN Stop("err", "steal_connection: local_addr failed", {})
        ELSE IF c \in DOMAIN s1.clients
        THEN IF CanSend(s1, c)
             THEN /\ Proceed(s1, [closes_of(s1, closes) EXCEPT ![id] = 0],
                             {Msg(c, "NewConnection", id, -1, 0, "")})
                  /\ tasks' = tasks
             ELSE Stop("err", "NewConnection: send failed", {})
        ELSE \/ Stop("panic", "steal_connection: debug_assert", {})
             \/ /\ Continue(close_client(s1, c), {})
                /\ tasks' = tasks

\* The Filtered arm of incoming_connection: allocate an id, spawn filter_task.
SpawnFilterTask(filters, port) ==
    LET id == next_index(core.index_allocator)
    IN  IF id = -1 THEN Stop("panic", "incoming_connection: next_index().unwrap()", {})
        ELSE \E t \in TaskIds :
                /\ tasks[t].phase = "unborn"
                /\ \A u \in TaskIds : u < t => tasks[u].phase # "unborn"
                /\ Continue([core EXCEPT !.index_allocator = @ \cup {id}], {})
                /\ tasks' = [tasks EXCEPT ![t] =
                                [UnbornTask EXCEPT !.phase = "live",
                                                   !.connection_id = id,
                                                   !.filters = filters]]

\* incoming_connection that takes a connection id before it looks the
\* subscription up, and keeps it when the port has none.
Accept_allocates_first(port, orig_ok, local_ok) ==
    /\ Running
    /\ port \in redirected
    /\ (~orig_ok \/ core.port_subscriptions[port].kind # "Unfiltered") => local_ok
    /\ LET sub == core.port_subscriptions[port]
           id == next_index(core.index_allocator)
       IN  IF ~orig_ok THEN Stop("err", "incoming_connection: orig_dst_addr failed", {})
           ELSE CASE sub.kind = "Unfiltered" -> StealConnection(sub.client, port, local_ok)
                  [] sub.kind = "Filtered" -> SpawnFilterTask(sub.filters, port)
                  [] OTHER -> /\ Continue([core EXCEPT !.index_allocator =
                                              IF id = -1 THEN @ ELSE @ \cup {id}], {})
                              /\ tasks' = tasks

\* The accept branch of the loop: incoming_connection on a connection whose
\* original destination is `port`. Connections arrive for a port once it has
\* been redirected, and those queued before an unsubscribe arrive after it.
\* orig_ok is whether orig_dst_addr recovers the destination.
Accept(port, orig_ok, local_ok) ==
    /\ Running
    /\ port \in redirected
    /\ (~orig_ok \/ core.port_subscriptions[port].kind # "Unfiltered") => local_ok
    /\ LET sub == core.port_subscriptions[port]
       IN  IF ~orig_ok THEN Stop("err", "incoming_connection: orig_dst_addr failed", {})
           ELSE CASE sub.kind = "Unfiltered" -> StealConnection(sub.client, port, local_ok)
                  [] sub.kind = "Filtered" -> SpawnFilterTask(sub.filters, port)
                  [] OTHER -> /\ Continue(core, {})
                              /\ tasks' = tasks

\* ---------------------------------------------------------- remote reads
\* forward_incoming_tcp_data that picks the first registered client instead
\* of the owner of the connection.
ForwardIncomingTcpData_to_first_client(id, outcome) ==
    LET s1 == [core EXCEPT !.read_streams = read_streams_after(@, id, outcome)]
        type == IF outcome = "data" THEN "Data" ELSE "Close"
    IN  IF outcome = "err" \/ DOMAIN core.clients = {}
        THEN Continue(s1, {}) /\ UNCHANGED tasks
        ELSE LET c == CHOOSE x \in DOMAIN core.clients :
                          \A y \in DOMAIN core.clients : x <= y
             IN  /\ Proceed(s1,
                            IF outcome = "eof"
                            THEN [closes EXCEPT ![id] = @ + 1]
                            ELSE closes,
                            IF CanSend(core, c) THEN {Msg(c, type, id, -1, 0, "")} ELSE {})
                 /\ UNCHANGED tasks

\* forward_incoming_tcp_data for what read_streams.next() yielded for id:
\* "data" is Some(Ok(bytes)), "err" is Some(Err(_)), "eof" is None.
ForwardIncomingTcpData(id, outcome) ==
    LET s1 == [core EXCEPT !.read_streams = read_streams_after(@, id, outcome)]
        c == connection_owner(core, id)
        type == IF outcome = "data" THEN "Data" ELSE "Close"
    IN  IF outcome = "err"
        THEN Continue(s1, {}) /\ UNCHANGED tasks
        ELSE IF c # 0 /\ c \in DOMAIN core.clients
        THEN IF CanSend(core, c)
             THEN /\ Proceed(s1,
                             IF outcome = "eof"
                             THEN [closes EXCEPT ![id] = @ + 1]
                             ELSE closes,
                             {Msg(c, type, id, -1, 0, "")})
                  /\ UNCHANGED tasks
             ELSE Continue(s1, {}) /\ UNCHANGED tasks
        ELSE \/ Stop("panic", "forward_incoming_tcp_data: debug_assert", {})
             \/ Continue(s1, {}) /\ UNCHANGED tasks

\* The read branch of the loop.
RemoteRead(id, outcome) ==
    /\ Running
    /\ id \in DOMAIN core.read_streams
    /\ core.read_streams[id] = "failed" => outcome = "eof"
    /\ ForwardIncomingTcpData(id, outcome)


\* ------------------------------------------------- filtered connections
\* A request on the channel from the filter tasks, as HandlerHttpRequest.
\* `task` is history; the response sink of the request is the task's.
Request(t, id, rid, c) ==
    [task |-> t, connection_id |-> id, request_id |-> rid, client_id |-> c]

\* The one-shot response sink of a request: the task that holds its
\* receiving end, or 0 once the task has exited and dropped it.
response_tx(request) ==
    IF tasks[request.task].phase = "live" THEN request.task ELSE 0

\* forward_stolen_http_request on the next request of the channel. ser_ok is
\* whether into_serializable / into_serializable_fallback succeeds.
ForwardStolenHttpRequest(request, s0, ser_ok) ==
    LET c == request.client_id
        id == request.connection_id
        s1 == [s0 EXCEPT
                 !.http_connection_clients =
                     Insert(@, id, (IF id \in DOMAIN @ THEN @[id] ELSE {}) \cup {c}),
                 !.http_response_senders =
                     Insert(@, <<id, request.request_id>>, response_tx(request))]
        type == IF s0.clients[c].framed THEN "HttpRequestFramed" ELSE "HttpRequest"
    IN  IF c \in DOMAIN s0.clients
        THEN IF ser_ok /\ CanSend(s0, c)
             THEN /\ Continue(s1, {Msg(c, type, id, request.request_id, request.task, "")})
                  /\ tasks' = [tasks EXCEPT ![request.task].reqd = @ \cup {c}]
             ELSE Stop("err", "HttpRequest: serialising or send failed", {})
        ELSE Continue(s0, {}) /\ UNCHANGED tasks

\* The request branch of the loop.
FilterRequest(ser_ok) ==
    /\ Running
    /\ core.http_request_receiver # <<>>
    /\ ForwardStolenHttpRequest(Head(core.http_request_receiver),
                                [core EXCEPT !.http_request_receiver = Tail(@)], ser_ok)

\* The close branch of the loop, on the next id of the close channel.
FilterClose ==
    /\ Running
    /\ core.http_connection_close_receiver # <<>>
    /\ LET note == Head(core.http_connection_close_receiver)
           id == note.connection_id
           s0 == [core EXCEPT !.http_connection_close_receiver = Tail(@)]
           known == id \in DOMAIN s0.http_connection_clients
           registered == IF known
                         THEN s0.http_connection_clients[id] \cap DOMAIN s0.clients
                         ELSE {}
           closed == {Msg(c, "Close", id, -1, note.task, "") : c \in registered}
           s1 == [s0 EXCEPT !.http_connection_clients = Remove(@, id),
                            !.index_allocator = free_index(@, id)]
       IN  IF \E c \in registered : ~CanSend(s0, c)
           THEN \E sent \in SUBSET {m \in closed : CanSend(s0, m.to)} :
                    Stop("err", "Close of a filtered connection: send failed", sent)
           ELSE /\ Continue(s1, closed)
                /\ tasks' = [tasks EXCEPT ![note.task].phase = "closed",
                                          ![note.task].connection_id = -1,
                                          ![note.task].closd = registered]

\* ------------------------------------------------------- the environment
\* A filter task matches a request to the filter of client c, emits it on
\* the request channel and awaits the response.
TaskEmit(t, c) ==
    /\ Running
    /\ tasks[t].phase = "live"
    /\ ~tasks[t].waiting
    /\ tasks[t].next_request_id < MaxRequests
    /\ c \in SeqRange(tasks[t].filters)
    /\ core' = [core EXCEPT !.http_request_receiver =
                   Append(@, Request(t, tasks[t].connection_id,
                                     tasks[t].next_request_id, c))]
    /\ tasks' = [tasks EXCEPT ![t].waiting = TRUE, ![t].next_request_id = @ + 1]
    /\ out' = {}
    /\ UNCHANGED <<status, cause, redirected, closes>>

\* A filter task exits (end of the peer's stream, a protocol error, a dropped
\* response sink) and sends its connection id on the close channel.
TaskExit(t) ==
    /\ Running
    /\ tasks[t].phase = "live"
    /\ core' = [core EXCEPT
                   !.http_connection_close_receiver =
                       Append(@, [task |-> t, connection_id |-> tasks[t].connection_id]),
                   !.http_response_senders =
                       [k \in DOMAIN @ |-> IF @[k] = t THEN 0 ELSE @[k]]]
    /\ tasks' = [tasks EXCEPT ![t].phase = "exited", ![t].waiting = FALSE,
                              ![t].filters = <<>>, ![t].next_request_id = 0]
    /\ out' = {}
    /\ UNCHANGED <<status, cause, redirected, closes>>

\* A client's connection to the agent goes away: the receiving end of its
\* channel is dropped while the core still holds the sender.
ReceiverDropped(c) ==
    /\ Running
    /\ CanSend(core, c)
    /\ core' = [core EXCEPT !.clients[c].open = FALSE]
    /\ out' = {}
    /\ UNCHANGED <<status, cause, tasks, redirected, closes>>

\* ------------------------------------------------- FsUserConfig (fs.rs)
\* The environment variables the fs section reads, each unset, set to a
\* value that parses, or set to one that does not.
FsModeVars == {"MIRRORD_FILE_OPS", "MIRRORD_FILE_RO_OPS"}
FsPatternVars == {"MIRRORD_FILE_READ_WRITE_PATTERN",
                  "MIRRORD_FILE_READ_ONLY_PATTERN",
                  "MIRRORD_FILE_LOCAL_PATTERN"}
FsEnvs == [FsModeVars \cup FsPatternVars -> {"unset", "valid", "invalid"}]

FsModes == {"Disabled", "Read", "Write"}
FsSimple(mode) == [kind |-> "Simple", mode |-> mode]
FsAdvanced == [kind |-> "Advanced", mode |-> "advanced"]
FsUserConfigs == {FsSimple(mode) : mode \in FsModes} \cup {FsAdvanced}

Ok(v) == [ok |-> TRUE, value |-> v]
Err(e) == [ok |-> FALSE, value |-> e]

\* impl Default for FsUserConfig
FsUserConfig_default == FsSimple("Read")

\* FromEnv::new(name).source_value().transpose(): Ok(None) for a variable
\* that is not set, Ok(Some(value)) for one that parses, Err otherwise.
FromEnv(env, name) ==
    CASE env[name] = "unset" -> Ok("None")
      [] env[name] = "valid" -> Ok(<<"Some", name>>)
      [] OTHER -> Err(<<"ConfigError", name>>)

\* FsModeConfig::generate_config (mode.rs). With neither MIRRORD_FILE_OPS nor
\* MIRRORD_FILE_RO_OPS set it gives the mode back, as tests::fs_config_default
\* has it; what it makes of these variables is left uninterpreted.
FsModeConfig_generate_config(mode, env) ==
    IF \A name \in FsModeVars : env[name] = "unset"
    THEN Ok(mode)
    ELSE IF \E name \in FsModeVars : env[name] = "invalid"
    THEN Err(<<"ConfigError", "mode">>)
    ELSE Ok(<<"FsModeConfig::generate_config", mode,
              env["MIRRORD_FILE_OPS"], env["MIRRORD_FILE_RO_OPS"]>>)

FsConfig(mode, read_write, read_only, local) ==
    [mode |-> mode, read_write |-> read_write, read_only |-> read_only, local |-> local]

\* The Simple arm of generate_config that takes the mode of disabled_config.
generate_config_disabled_mode(user, env) ==
    LET read_write == FromEnv(env, "MIRRORD_FILE_READ_WRITE_PATTERN")
        read_only == FromEnv(env, "MIRRORD_FILE_READ_ONLY_PATTERN")
        local == FromEnv(env, "MIRRORD_FILE_LOCAL_PATTERN")
    IN  IF ~read_write.ok THEN read_write
        ELSE IF ~read_only.ok THEN read_only
        ELSE IF ~local.ok THEN local
        ELSE Ok(FsConfig("Disabled", read_write.value, read_only.value, local.value))

\* impl MirrordConfig for FsUserConfig: generate_config. Each `?` returns the
\* first error, in the order the fields are written.
generate_config(user, env) ==
    IF user.kind = "Simple"
    THEN LET mode == FsModeConfig_generate_config(user.mode, env)
             read_write == FromEnv(env, "MIRRORD_FILE_READ_WRITE_PATTERN")
             read_only == FromEnv(env, "MIRRORD_FILE_READ_ONLY_PATTERN")
             local == FromEnv(env, "MIRRORD_FILE_LOCAL_PATTERN")
         IN  IF ~mode.ok THEN mode
             ELSE IF ~read_write.ok THEN read_write
             ELSE IF ~read_only.ok THEN read_only
             ELSE IF ~local.ok THEN local
             ELSE Ok(FsConfig(mode.value, read_write.value, read_only.value, local.value))
    ELSE Ok(<<"AdvancedFsUserConfig::generate_config", env>>)

\* No fs section has been read: phase is "start", then "read" once the
\* user's configuration is known, then "generated".
NoConfig == [env |-> [name \in FsModeVars \cup FsPatternVars |-> "unset"],
             phase |-> "start", user |-> FsSimple("none"), generated |-> Err("none")]

\* The process starts in some environment.
InitFs ==
    /\ core = InitCore
    /\ status = "running"
    /\ cause = ""
    /\ tasks = InitTasks
    /\ redirected = {}
    /\ closes = InitCloses
    /\ out = {}
    /\ last = [name |-> "", by |-> 0, freed |-> {}, quiet |-> TRUE]
    /\ announced = {}
    /\ signal = "none"
    /\ awaiting = NoEvent
    /\ inbox = [c \in ClientIds |-> 0]
    /\ \E env \in FsEnvs : config = [NoConfig EXCEPT !.env = env]

\* The configuration file has no fs section: FsUserConfig::default().
UseDefault ==
    /\ config.phase = "start"
    /\ config' = [config EXCEPT !.phase = "read", !.user = FsUserConfig_default]
    /\ UNCHANGED stealer

\* The configuration file has an fs section.
UseConfigured(user) ==
    /\ config.phase = "start"
    /\ config' = [config EXCEPT !.phase = "read", !.user = user]
    /\ UNCHANGED stealer

\* generate_config() on the user's configuration.
GenerateConfig ==
    /\ config.phase = "read"
    /\ config' = [config EXCEPT !.phase = "generated",
                                 !.generated = generate_config(config.user, config.env)]
    /\ UNCHANGED stealer

NextFs ==
    \/ UseDefault
    \/ \E user \in FsUserConfigs : UseConfigured(user)
    \/ GenerateConfig

SpecFs == InitFs /\ [][NextFs]_vars

\* ------------------------------------------------------ the specification
Init ==
    /\ core = InitCore
    /\ status = "running"
    /\ cause = ""
    /\ tasks = InitTasks
    /\ redirected = {}
    /\ closes = InitCloses
    /\ out = {}
    /\ last = [name |-> "", by |-> 0, freed |-> {}, quiet |-> TRUE]
    /\ announced = {}
    /\ config = NoConfig
    /\ signal = "none"
    /\ awaiting = NoEvent
    /\ inbox = [c \in ClientIds |-> 0]

\* The connection ids a step issues: free before it, in use after it.
Issued == core'.index_allocator \ core.index_allocator

\* The step A, of a command that came under client id c (0 when that is not
\* recorded), noted in `last` with the ids it returned to the allocator and
\* whether it was quiet (it changed no field of the struct and sent nothing); the
\* NewConnection messages it sent are noted in `announced`, which forgets a
\* connection when its id leaves connection_clients or is issued anew.
NotedBy(name, c, A) ==
    /\ A
    /\ last' = [name |-> name,
                by |-> c,
                freed |-> IF status' = "running"
                          THEN core.index_allocator \ core'.index_allocator
                          ELSE {},
                quiet |-> status' = "running" /\ core' = core /\ out' = {}]
    /\ announced' =
           {pair \in announced : /\ pair[1] \in DOMAIN core'.connection_clients
                                 /\ pair[1] \notin Issued}
           \cup {<<m.connection_id, m.to>> : m \in {n \in out' : n.type = "NewConnection"}}
    /\ UNCHANGED config

Noted(name, A) == NotedBy(name, 0, A)

\* A step of a loop whose clients receive every message at once: no send
\* waits for room, and the loop ends the moment it is asked to.
Step(name, A) ==
    /\ Noted(name, A)
    /\ UNCHANGED <<signal, awaiting, inbox>>

StealTypes == {"All", "FilteredHttp", "FilteredHttpEx"}
ReadOutcomes == {"data", "err", "eof"}

Versions == BOOLEAN

\* The commands of the outer agent that concern clients and subscriptions,
\* for the steal types `steals` and the protocol versions `versions`, and
\* the loss of a client's receiver. Every step notes its name in `last`.
ClientCommand(steals, versions) ==
    \/ \E c \in ClientIds, framed \in versions : Step("NewClient", NewClient(c, framed))
    \/ \E c \in ClientIds, p \in Ports, steal \in steals, ok1, ok2 \in BOOLEAN :
          Step("PortSubscribe", PortSubscribe(c, p, steal, ok1, ok2))
    \/ \E c \in ClientIds, p \in Ports : Step("PortUnsubscribe", PortUnsubscribe(c, p))
    \/ \E c \in ClientIds : Step("ClientClose", ClientClose(c))
    \/ \E c \in ClientIds, framed \in versions : Step("SwitchProtocolVersion", SwitchProtocolVersion(c, framed))
    \/ \E c \in ClientIds : Step("ReceiverDropped", ReceiverDropped(c))

\* The ways the loop ends without an error.
LoopEnd ==
    \/ Step("CommandChannelClosed", CommandChannelClosed)
    \/ Step("Cancelled", Cancelled)
    \/ Step("AcceptFailed", AcceptFailed)

\* The events of connections of either kind.
ConnectionEvent ==
    \/ \E c \in ClientIds, id \in ConnectionIds : Step("ConnectionUnsubscribe", ConnectionUnsubscribe(c, id))
    \/ \E p \in Ports, ok1, ok2 \in BOOLEAN : Step("Accept", Accept(p, ok1, ok2))

\* The events of raw-TCP connections.
RawEvent ==
    \/ \E c \in ClientIds, id \in ConnectionIds, ok \in BOOLEAN : Step("ResponseData", ResponseData(c, id, ok))
    \/ \E id \in ConnectionIds, outcome \in ReadOutcomes : Step("RemoteRead", RemoteRead(id, outcome))

\* The events of filtered connections.
HttpEvent ==
    \/ \E c \in ClientIds, id \in ConnectionIds, rid \in RequestIds, ok \in BOOLEAN :
          Step("HttpResponse", HttpResponse(c, id, rid, ok))
    \/ \E ok \in BOOLEAN : Step("FilterRequest", FilterRequest(ok))
    \/ Step("FilterClose", FilterClose)
    \/ \E t \in TaskIds, c \in ClientIds : Step("TaskEmit", TaskEmit(t, c))
    \/ \E t \in TaskIds : Step("TaskExit", TaskExit(t))

Next ==
    \/ ClientCommand(StealTypes, Versions)
    \/ LoopEnd
    \/ RawEvent
    \/ ConnectionEvent
    \/ HttpEvent

Spec == Init /\ [][Next]_vars

\* Every port is stolen whole: the raw-TCP connections alone.
NextRaw ==
    \/ ClientCommand({"All"}, Versions)
    \/ LoopEnd
    \/ RawEvent
    \/ ConnectionEvent

SpecRaw == Init /\ [][NextRaw]_vars

\* Every port is shared by filters: the filtered connections alone.
NextHttp ==
    \/ ClientCommand({"FilteredHttp", "FilteredHttpEx"}, Versions)
    \/ LoopEnd
    \/ ConnectionEvent
    \/ HttpEvent

SpecHttp == Init /\ [][NextHttp]_vars

\* Ports change hands between whole stealing and a filter, for clients that
\* all speak the framed version: connections of both kinds share the ids.
NextShared ==
    \/ ClientCommand({"All", "FilteredHttp"}, {TRUE})
    \/ LoopEnd
    \/ ConnectionEvent
    \/ \E id \in ConnectionIds : Step("RemoteRead", RemoteRead(id, "eof"))
    \/ \E t \in TaskIds : Step("TaskExit", TaskExit(t))
    \/ Step("FilterClose", FilterClose)

SpecShared == Init /\ [][NextShared]_vars


\* Every port is shared by header filters of clients that all speak the
\* framed version: the requests and responses of filtered connections.
NextFramed ==
    \/ ClientCommand({"FilteredHttp"}, {TRUE})
    \/ LoopEnd
    \/ ConnectionEvent
    \/ HttpEvent

SpecFramed == Init /\ [][NextFramed]_vars


\* A port changes hands between a header filter and whole stealing while
\* requests of its filtered connections are in flight: the commands that
\* register and subscribe, accepts, and the events of the filter tasks, all
\* without failing inputs.
NextHandover ==
    \/ \E c \in ClientIds : Step("NewClient", NewClient(c, TRUE))
    \/ \E c \in ClientIds, p \in Ports, steal \in {"All", "FilteredHttp"} :
          Step("PortSubscribe", PortSubscribe(c, p, steal, TRUE, TRUE))
    \/ \E c \in ClientIds, p \in Ports : Step("PortUnsubscribe", PortUnsubscribe(c, p))
    \/ \E p \in Ports : Step("Accept", Accept(p, TRUE, TRUE))
    \/ Step("FilterRequest", FilterRequest(TRUE))
    \/ Step("FilterClose", FilterClose)
    \/ \E t \in TaskIds, c \in ClientIds : Step("TaskEmit", TaskEmit(t, c))
    \/ \E t \in TaskIds : Step("TaskExit", TaskExit(t))

SpecHandover == Init /\ [][NextHandover]_vars

\* The commands that name a connection or a request, each noted with the
\* client id it came under, among clients that hold raw and filtered
\* connections; no input fails but the socket write of ResponseData.
StepBy(name, c, A) ==
    /\ NotedBy(name, c, A)
    /\ UNCHANGED <<signal, awaiting, inbox>>

NextIsolation ==
    \/ \E c \in ClientIds : Step("NewClient", NewClient(c, TRUE))
    \/ \E c \in ClientIds, p \in Ports, steal \in {"All", "FilteredHttp"} :
          Step("PortSubscribe", PortSubscribe(c, p, steal, TRUE, TRUE))
    \/ \E p \in Ports : Step("Accept", Accept(p, TRUE, TRUE))
    \/ \E c \in ClientIds, id \in ConnectionIds :
          StepBy("ConnectionUnsubscribe", c, ConnectionUnsubscribe(c, id))
    \/ \E c \in ClientIds, id \in ConnectionIds, ok \in BOOLEAN :
          StepBy("ResponseData", c, ResponseData(c, id, ok))
    \/ \E c \in ClientIds, id \in ConnectionIds, rid \in RequestIds :
          StepBy("HttpResponse", c, HttpResponse(c, id, rid, TRUE))
    \/ Step("FilterRequest", FilterRequest(TRUE))
    \/ \E t \in TaskIds, c \in ClientIds : Step("TaskEmit", TaskEmit(t, c))

SpecIsolation == Init /\ [][NextIsolation]_vars

\* ------------------------------------------- sends on bounded channels
\* The loop with its suspension points. A handler awaits each send on the
\* client's bounded channel: while the channel is full and its receiver is
\* alive the handler is suspended inside its select! branch, and start()
\* polls no other branch, the cancellation token included, until the send
\* completes. The events are those of raw-TCP connections, from an outer
\* agent that registers a client before it subscribes for it, with peers
\* that connect while a connection id is left and clients that keep their
\* receivers.
LiveCommands ==
    {Event("NewClient", c, 0, -1, "") : c \in ClientIds}
    \cup {Event("PortSubscribe", c, p, -1, "") : c \in ClientIds, p \in Ports}
    \cup {Event("ClientClose", c, 0, -1, "") : c \in ClientIds}

LiveEvents ==
    LiveCommands
    \cup {Event("Accept", 0, p, -1, "") : p \in Ports}
    \cup {Event("RemoteRead", 0, 0, id, outcome) :
              id \in ConnectionIds, outcome \in {"data", "eof"}}

\* The select! branch of e is ready.
Ready(e) ==
    CASE e.name = "NewClient" -> signal # "closed" /\ e.client \notin DOMAIN core.clients
      [] e.name = "PortSubscribe" -> signal # "closed" /\ e.client \in DOMAIN core.clients
      [] e.name = "ClientClose" -> signal # "closed"
      [] e.name = "Accept" ->
            /\ e.port \in redirected
            /\ core.index_allocator # ConnectionIds
      [] e.name = "RemoteRead" -> e.id \in DOMAIN core.read_streams
      [] OTHER -> FALSE

\* The handler of e.
Handle(e) ==
    CASE e.name = "NewClient" -> NewClient(e.client, TRUE)
      [] e.name = "PortSubscribe" -> PortSubscribe(e.client, e.port, "All", TRUE, TRUE)
      [] e.name = "ClientClose" -> ClientClose(e.client)
      [] e.name = "Accept" -> Accept(e.port, TRUE, TRUE)
      [] e.name = "RemoteRead" -> RemoteRead(e.id, e.outcome)

\* The client on whose channel the handler of e sends (0 when it sends
\* nothing): the subscriber, the holder of the port, the owner of the
\* connection.
Recipient(e) ==
    LET c == CASE e.name = "PortSubscribe" -> e.client
               [] e.name = "Accept" -> core.port_subscriptions[e.port].client
               [] e.name = "RemoteRead" -> connection_owner(core, e.id)
               [] OTHER -> 0
    IN  IF c \in DOMAIN core.clients THEN c ELSE 0

\* Sender::send(..).await does not complete: the channel is full and its
\* receiver is alive.
MustWait(e) ==
    /\ Recipient(e) # 0
    /\ CanSend(core, Recipient(e))
    /\ inbox[Recipient(e)] >= ChannelCap

\* The clients' channels after the handler of e has sent out'. NewClient
\* brings the sender of a new channel.
inbox_after(e) ==
    [c \in ClientIds |->
        IF e.name = "NewClient" /\ e.client = c THEN 0
        ELSE inbox[c] + Cardinality({m \in out' : m.to = c})]

\* A branch of the select! is taken and its handler runs to its end.
Deliver(e) ==
    /\ Running
    /\ awaiting = NoEvent
    /\ Ready(e)
    /\ ~MustWait(e)
    /\ Handle(e)
    /\ inbox' = inbox_after(e)
    /\ UNCHANGED <<signal, awaiting>>

\* A branch of the select! is taken and its handler reaches a send on a full
\* channel: the loop is suspended in the handler.
Await(e) ==
    /\ Running
    /\ awaiting = NoEvent
    /\ Ready(e)
    /\ MustWait(e)
    /\ awaiting' = e
    /\ out' = {}
    /\ UNCHANGED <<core, status, cause, tasks, redirected, closes, signal, inbox>>

\* The channel has room again: the send completes and the handler ends.
Resume ==
    /\ Running
    /\ awaiting # NoEvent
    /\ ~MustWait(awaiting)
    /\ Handle(awaiting)
    /\ inbox' = inbox_after(awaiting)
    /\ awaiting' = NoEvent
    /\ UNCHANGED signal

\* The outer agent receives a message from the channel of client c.
ClientDrain(c) ==
    /\ Running
    /\ inbox[c] > 0
    /\ inbox' = [inbox EXCEPT ![c] = @ - 1]
    /\ out' = {}
    /\ UNCHANGED <<core, status, cause, tasks, redirected, closes, signal, awaiting>>

\* The outer agent cancels the token, or drops the sender of the command
\* channel (whose queue is empty by then).
Raise(how) ==
    /\ Running
    /\ signal = "none"
    /\ signal' = how
    /\ out' = {}
    /\ UNCHANGED <<core, status, cause, tasks, redirected, closes, awaiting, inbox>>

\* The select! takes the branch of the cancelled token.
ObserveCancelled ==
    /\ awaiting = NoEvent
    /\ signal = "cancelled"
    /\ Cancelled
    /\ UNCHANGED <<signal, awaiting, inbox>>

\* The select! takes the command branch, and recv() yields None.
ObserveClosed ==
    /\ awaiting = NoEvent
    /\ signal = "closed"
    /\ CommandChannelClosed
    /\ UNCHANGED <<signal, awaiting, inbox>>

LiveCancelled == Noted("Cancelled", ObserveCancelled)
LiveCommandChannelClosed == Noted("CommandChannelClosed", ObserveClosed)
LiveResume == Noted("Resume", Resume)

NextLive ==
    \/ \E e \in LiveEvents : Noted(e.name, Deliver(e))
    \/ \E e \in LiveEvents : Noted("Await", Await(e))
    \/ LiveResume
    \/ \E c \in ClientIds : Noted("ClientDrain", ClientDrain(c))
    \/ \E how \in {"cancelled", "closed"} : Noted("Raise", Raise(how))
    \/ LiveCancelled
    \/ LiveCommandChannelClosed

\* The task of the loop is scheduled whenever it can run, and select! picks
\* among the ready branches at random: a suspended send completes once there
\* is room, and a branch that is ready again and again is taken. Nothing
\* makes the outer agent receive from a client's channel.
SpecLive ==
    /\ Init
    /\ [][NextLive]_vars
    /\ WF_vars(LiveResume)
    /\ SF_vars(LiveCancelled)
    /\ SF_vars(LiveCommandChannelClosed)

\* The same loop with an outer agent that keeps receiving from every
\* client's channel.
SpecDrained ==
    /\ SpecLive
    /\ \A c \in ClientIds : WF_vars(Noted("ClientDrain", ClientDrain(c)))


\* ================================================================ claims
Owner(id) == connection_owner(core, id)
IsRaw(id) == id \in DOMAIN core.connection_clients
SentTo(c, type, id) == \E m \in out' : m.to = c /\ m.type = type /\ m.connection_id = id
OwnerListens(id) == IsRaw(id) /\ CanSend(core, Owner(id))

\* C1: table invariant 1. For every connection id, connection_clients has an
\* entry for it iff the id is in the client_connections set of that client,
\* iff both a read stream and a write half are registered for it.
C1_ConnectionTablesAgree ==
    \A id \in ConnectionIds :
        LET listed == /\ IsRaw(id)
                      /\ Owner(id) \in DOMAIN core.client_connections
                      /\ id \in core.client_connections[Owner(id)]
            streams == id \in DOMAIN core.read_streams /\ id \in core.write_streams
        IN  (IsRaw(id) <=> listed) /\ (listed <=> streams)

\* C2: a connection id is unique while live. No two live connections (a raw
\* connection registered in the tables, a filtered connection whose close the
\* loop has not handled yet) hold the same id.
LiveTask(t) == tasks[t].phase \in {"live", "exited"}

C2_LiveIdsUnique ==
    \A t \in TaskIds :
        LiveTask(t) =>
            /\ ~IsRaw(tasks[t].connection_id)
            /\ \A u \in TaskIds \ {t} :
                   LiveTask(u) => tasks[u].connection_id # tasks[t].connection_id

\* C3: exactly one Close is sent to the owner over the lifetime of a raw
\* connection, whichever way it dies: whenever a step of the running loop
\* removes a raw connection from the tables and its owner stays a client,
\* one Close has been sent for it.
C3_ExactlyOneClosePerConnection ==
    [][\A id \in ConnectionIds :
          (/\ IsRaw(id)
           /\ status' = "running"
           /\ id \notin DOMAIN core'.connection_clients
           /\ Owner(id) \in DOMAIN core'.clients)
              => closes[id] = 1]_vars

\* C4: on end-of-stream of a raw connection the loop sends Close to the owner
\* and frees the id, releasing its table entries.
C4_EndOfStreamFreesId ==
    [][\A id \in ConnectionIds :
          (OwnerListens(id) /\ RemoteRead(id, "eof"))
              => /\ SentTo(Owner(id), "Close", id)
                 /\ id \notin core'.index_allocator
                 /\ id \notin DOMAIN core'.connection_clients
                 /\ id \notin core'.write_streams]_vars

\* C5: on a read error of a raw connection the loop sends Close to the owner,
\* frees the id, and goes on running.
C5_ReadErrorClosesAndFrees ==
    [][\A id \in ConnectionIds :
          (OwnerListens(id) /\ RemoteRead(id, "err"))
              => /\ SentTo(Owner(id), "Close", id)
                 /\ id \notin core'.index_allocator
                 /\ status' = "running"]_vars

\* C6: an accept on a subscribed port while every connection id is in use
\* fails without a panic: the loop keeps its tables and issues no id.
C6_ExhaustionDoesNotPanic ==
    [][\A p \in Ports :
          (/\ core.index_allocator = ConnectionIds
           /\ core.port_subscriptions[p].kind # "None"
           /\ Accept(p, TRUE, TRUE))
              => /\ status' # "panic"
                 /\ core'.index_allocator \subseteq ConnectionIds]_vars

\* C7: a failed send to a client's channel demotes only that client: the loop
\* runs close_client for it, keeps running and keeps every other client.
SendsTo(c) ==
    \/ \E p \in Ports, steal \in StealTypes, ok1, ok2 \in BOOLEAN :
          PortSubscribe(c, p, steal, ok1, ok2)
    \/ \E p \in Ports :
          /\ core.port_subscriptions[p] = Unfiltered(c)
          /\ core.index_allocator # ConnectionIds
          /\ Accept(p, TRUE, TRUE)
    \/ \E id \in ConnectionIds, outcome \in {"data", "eof"} :
          Owner(id) = c /\ RemoteRead(id, outcome)

C7_FailedSendDemotesOnlyThatClient ==
    [][\A c \in ClientIds :
          (c \in DOMAIN core.clients /\ ~core.clients[c].open /\ SendsTo(c))
              => /\ status' = "running"
                 /\ DOMAIN core'.clients = DOMAIN core.clients \ {c}]_vars

\* C8: a failed socket write while handling ResponseData closes the
\* connection and the loop goes on.
C8_WriteFailureIsTransient ==
    [][\A c \in ClientIds, id \in ConnectionIds :
          (id \in core.write_streams /\ ResponseData(c, id, FALSE))
              => /\ status' = "running"
                 /\ id \notin core'.write_streams
                 /\ id \notin DOMAIN core'.connection_clients]_vars

\* C9: every request of a filtered connection reaches its client before the
\* Close of that connection does: no request is sent to a client that has
\* already been sent the Close of the request's connection.
HttpRequestTypes == {"HttpRequest", "HttpRequestFramed"}

C9_RequestsPrecedeClose ==
    [][\A m \in out' :
          m.type \in HttpRequestTypes => m.to \notin tasks[m.task].closd]_vars

\* C10: when the loop handles the close of a filtered connection, it sends one
\* Close to exactly the registered clients that were sent a request of the
\* connection; none of them is left without it, so no client is sent a request
\* of the connection once its close has been handled.
C10_CloseReachesExactlyTheRequestedClients ==
    [][\A t \in TaskIds :
          /\ (tasks[t].phase = "exited" /\ tasks'[t].phase = "closed")
                 => tasks'[t].closd = tasks[t].reqd \cap DOMAIN core.clients
          /\ (tasks[t].phase = "closed" /\ tasks'[t].phase = "closed")
                 => tasks'[t].reqd = tasks[t].reqd]_vars

\* C11: every key (connection_id, request_id) of http_response_senders names
\* a connection id that the allocator has issued and not freed; no entry of a
\* connection outlives the handling of the connection's close.
C11_ResponseSendersHoldLiveIds ==
    \A key \in DOMAIN core.http_response_senders : key[1] \in core.index_allocator

\* C12: an id is not issued while stale state remains: whenever a step issues
\* a connection id, no table of the struct held an entry for that id.
InSomeTable(s, id) ==
    \/ id \in s.write_streams
    \/ id \in DOMAIN s.read_streams
    \/ id \in DOMAIN s.connection_clients
    \/ \E c \in DOMAIN s.client_connections : id \in s.client_connections[c]
    \/ id \in DOMAIN s.http_connection_clients
    \/ \E key \in DOMAIN s.http_response_senders : key[1] = id

C12_IssuedIdHasNoStaleState ==
    [][\A id \in ConnectionIds :
          (id \notin core.index_allocator /\ id \in core'.index_allocator)
              => ~InSomeTable(core, id)]_vars

\* C13: every PortSubscribe the loop handles delivers exactly one
\* SubscribeResult to the subscribing client, whatever the outcome of the
\* subscription and whether or not the client is registered.
SubscribeResults(c) == {m \in out' : m.to = c /\ m.type = "SubscribeResult"}

C13_OneSubscribeResultPerSubscribe ==
    [][\A c \in ClientIds, p \in Ports, steal \in StealTypes, ok1, ok2 \in BOOLEAN :
          PortSubscribe(c, p, steal, ok1, ok2) => Cardinality(SubscribeResults(c)) = 1]_vars

\* C14: ClientClose(c) leaves c with no stake in any port, absent from
\* clients and client_connections, and every raw connection c owned out of
\* write_streams, read_streams and connection_clients with its id free; an
\* accept that follows on a port left without a subscription is dropped.
HoldsStake(sub, c) ==
    \/ sub.kind = "Unfiltered" /\ sub.client = c
    \/ sub.kind = "Filtered" /\ c \in SeqRange(sub.filters)

OnlyHolder(sub, c) == sub = Unfiltered(c) \/ sub = Filtered(<<c>>)

Arbitrated(sub) ==
    CASE sub.kind = "None" -> sub = NoSubscription
      [] sub.kind = "Unfiltered" -> sub.client \in ClientIds /\ sub = Unfiltered(sub.client)
      [] sub.kind = "Filtered" ->
            /\ sub = Filtered(sub.filters)
            /\ sub.filters # <<>>
            /\ SeqRange(sub.filters) \subseteq ClientIds
            /\ Cardinality(SeqRange(sub.filters)) = Len(sub.filters)
      [] OTHER -> FALSE

Collides(sub, steal) ==
    \/ sub.kind = "Unfiltered"
    \/ sub.kind = "Filtered" /\ steal = "All"

Reachable(c) == c \in DOMAIN core.clients => core.clients[c].open

BadFilter(steal) ==
    IF steal = "FilteredHttp" THEN "Err(BadHttpFilterRegex)" ELSE "Err(BadHttpFilterExRegex)"

C17_ResponseForwardedAtMostOnce ==
    [][\A c \in ClientIds, id \in ConnectionIds, rid \in RequestIds, ok \in BOOLEAN :
          (last'.name = "HttpResponse" /\ HttpResponse(c, id, rid, ok))
              => IF <<id, rid>> \in DOMAIN core.http_response_senders
                 THEN status' = "running" =>
                          /\ <<id, rid>> \notin DOMAIN core'.http_response_senders
                          /\ tasks' # tasks =>
                                 LET t == core.http_response_senders[<<id, rid>>]
                                 IN  /\ ok
                                     /\ t # 0
                                     /\ tasks[t].waiting
                                     /\ tasks' = [tasks EXCEPT ![t].waiting = FALSE]
                 ELSE /\ status' = "running"
                      /\ core' = core
                      /\ tasks' = tasks
                      /\ out' = {}]_vars

\* A response has just been dropped: the only sink the core holds is that of
\* a request whose task still waits for its response.
C17_Witness ==
    /\ last.name = "HttpResponse"
    /\ last.quiet
    /\ status = "running"
    /\ \E t \in TaskIds :
          /\ tasks[t].phase = "live"
          /\ tasks[t].waiting
          /\ DOMAIN core.http_response_senders =
                 {<<tasks[t].connection_id, tasks[t].next_request_id - 1>>}

C19_LateAcceptIsDropped ==
    [][\A p \in Ports :
          (/\ last'.name = "Accept"
           /\ core.port_subscriptions[p] = NoSubscription
           /\ Accept(p, TRUE, TRUE))
              => /\ status' = "running"
                 /\ core' = core
                 /\ tasks' = tasks
                 /\ out' = {}]_vars

\* A connection has just been accepted while no port had a subscription: it
\* was queued for a port redirected before.
C19_Witness ==
    /\ last.name = "Accept"
    /\ last.quiet
    /\ status = "running"
    /\ redirected # {}
    /\ \A p \in Ports : core.port_subscriptions[p] = NoSubscription

\* C20: in an environment with no MIRRORD_FILE_* variable set,
\* FsUserConfig::default() is Simple(Read), and generate_config() on it
\* succeeds with an FsConfig whose mode is Read and whose read_write,
\* read_only and local are unset.
CleanFsEnv == \A name \in FsModeVars \cup FsPatternVars : config.env[name] = "unset"

C21_SignalEndsTheLoop == (signal # "none") ~> (status = "ok")

\* C22: the response sink of an in-flight request does not outlive its
\* client. When ClientClose(c) is handled while a request of a connection
\* whose requests all went to c awaits its response, the sink stored under
\* (connection_id, request_id) is gone from http_response_senders afterwards.
InFlight(key) ==
    /\ key \in DOMAIN core.http_response_senders
    /\ core.http_response_senders[key] # 0
    /\ tasks[core.http_response_senders[key]].waiting

ForwardedOnlyTo(id, c) ==
    /\ id \in DOMAIN core.http_connection_clients
    /\ core.http_connection_clients[id] = {c}

C22_SinkDoesNotOutliveClient ==
    [][\A c \in ClientIds, id \in ConnectionIds, rid \in RequestIds :
          (/\ last'.name = "ClientClose"
           /\ InFlight(<<id, rid>>)
           /\ ForwardedOnlyTo(id, c)
           /\ ClientClose(c))
              => <<id, rid>> \notin DOMAIN core'.http_response_senders]_vars

\* C23: when a connection is accepted on a port whose Unfiltered holder c is
\* not in clients, the allocation is revoked and the client closed:
\* afterwards the id taken for the connection is free, no per-connection
\* table holds an entry for it, c has no stake in any port and no
\* client_connections entry, and no message was sent.
InConnectionTable(s, id) ==
    \/ id \in s.write_streams
    \/ id \in DOMAIN s.read_streams
    \/ id \in DOMAIN s.connection_clients
    \/ id \in DOMAIN s.http_connection_clients
    \/ \E key \in DOMAIN s.http_response_senders : key[1] = id

HeldByUnregistered(p) ==
    /\ core.port_subscriptions[p].kind = "Unfiltered"
    /\ core.port_subscriptions[p].client \notin DOMAIN core.clients
    /\ core.index_allocator # ConnectionIds

C23_AcceptForAbsentHolderIsRevoked ==
    [][\A p \in Ports :
          (/\ last'.name = "Accept"
           /\ HeldByUnregistered(p)
           /\ Accept(p, TRUE, TRUE))
              => LET c == core.port_subscriptions[p].client
                     id == next_index(core.index_allocator)
                 IN  /\ id \notin core'.index_allocator
                     /\ ~InConnectionTable(core', id)
                     /\ \A q \in Ports : ~HoldsStake(core'.port_subscriptions[q], c)
                     /\ c \notin DOMAIN core'.client_connections
                     /\ c \notin DOMAIN core'.clients
                     /\ out' = {}]_vars

\* C24: client isolation. A command that came under client id x acts only on
\* what belongs to x: ConnectionUnsubscribe leaves a raw connection owned by
\* another client in place, ResponseData attempts no write on the socket of
\* another client's connection (so no such write can fail and end the loop),
\* and HttpResponse leaves the sink of a request that went to another client
\* where it is.
OwnedByOther(id, x) == IsRaw(id) /\ Owner(id) # x

ForwardedToOther(id, x) ==
    \E y \in ClientIds \ {x} : ForwardedOnlyTo(id, y)

C24_CommandsActOnOwnConnections ==
    [][\A x \in ClientIds, id \in ConnectionIds :
          /\ (/\ last'.name = "ConnectionUnsubscribe"
              /\ last'.by = x
              /\ OwnedByOther(id, x)
              /\ ConnectionUnsubscribe(x, id))
                 => /\ id \in DOMAIN core'.connection_clients
                    /\ id \in core'.write_streams
          /\ (/\ last'.name = "ResponseData"
              /\ last'.by = x
              /\ OwnedByOther(id, x)
              /\ \E ok \in BOOLEAN : ResponseData(x, id, ok))
                 => status' = "running"
          /\ \A rid \in RequestIds :
                (/\ last'.name = "HttpResponse"
                 /\ last'.by = x
                 /\ InFlight(<<id, rid>>)
                 /\ ForwardedToOther(id, x)
                 /\ HttpResponse(x, id, rid, TRUE))
                    => /\ <<id, rid>> \in DOMAIN core'.http_response_senders
                       /\ tasks' = tasks]_vars

\* C25: id accounting. Between iterations of the loop, the ids the allocator
\* holds as allocated are exactly the keys of connection_clients together
\* with the ids of the filtered connections whose close has not been handled:
\* no id stays allocated without a connection, and no connection's id is free.
FilteredIds == {tasks[t].connection_id : t \in {u \in TaskIds : LiveTask(u)}}

C25_AllocatedIdsAreTheConnections ==
    core.index_allocator = DOMAIN core.connection_clients \cup FilteredIds

====
